---- MODULE Spec2Model ----
(***************************************************************************)
(* Model of "Happy Hours finder/happy_hours.py": location resolution in    *)
(* main(), the two-node workflow (data_collector -> decide_next_step ->    *)
(* whistle_api_creator) and the venue discovery of                         *)
(* fetch_happy_hour_data_live.                                             *)
(*                                                                         *)
(* Representation choices:                                                 *)
(*  - Texts are TLA+ strings; split, strip, lower and the substring test   *)
(*    are computed character by character.                                 *)
(*  - Coordinates are integer pairs on a kilometre grid.  The geodesic     *)
(*    distance is represented by the SQUARE of the planar distance, which  *)
(*    orders points the same way; the radius is squared when compared.     *)
(*    A latitude outside [-90, 90] makes geodesic() raise, which           *)
(*    calculate_distance_km turns into float('inf').                       *)
(*  - Durations are in tenths of an hour (2.5 h = 25).                     *)
(*  - Python None is the string "None" for texts and NoneCoord for         *)
(*    coordinates.                                                         *)
(*  - A keyword response is consumed one result at a time: TextSearch      *)
(*    draws the number of results, ProcessPlace draws each result when     *)
(*    the loop of line 429 reaches it.                                     *)
(*  - Spec runs the whole program and infers each venue in one step        *)
(*    (BuildCandidate).  InferSpec runs lines 449-498 for one venue step   *)
(*    by step, over a wider set of detail records, and hands the result    *)
(*    to the same filter, formatting and sort.                             *)
(***************************************************************************)
EXTENDS Integers, Sequences, FiniteSets, TLC

VARIABLES
    pc,               \* position of the program
    api_key,          \* GOOGLE_PLACES_API_KEY (line 38)
    state,            \* the GraphState handed along the workflow
    query_idx,        \* index into search_queries of the loop of line 415
    results_left,     \* results of the current response not yet iterated
    all_places_found, \* line 412
    place_ids_found,  \* line 413
    raw_deals,        \* value returned by fetch_happy_hour_data_live (line 570)
    queried,          \* history: keywords whose text search was issued
    loc_net_called,   \* history: location resolution attempted a network call
    places_api_called,\* history: a Places API request was attempted
    collector_runs,   \* history: times data_collector_agent was entered
    creator_runs,     \* history: times whistle_api_creator_agent was entered
    branch,           \* history: value returned by decide_next_step ("" before)
    events,           \* history: kinds of incident met during discovery
    report,           \* what main prints after app.invoke (lines 781-797)
    venue,            \* detailed_place (line 449) of the venue under inference
    review_idx,       \* reviews of reviews[:5] the loop of line 454 has examined
    mention           \* has_happy_hour_mention (line 452)

vars == <<pc, api_key, state, query_idx, results_left, all_places_found,
          place_ids_found, raw_deals, queried, loc_net_called,
          places_api_called, collector_runs, creator_runs, branch, events,
          report, venue, review_idx, mention>>

\* the locals of the inference of one venue
infer_vars == <<venue, review_idx, mention>>

\* everything the workflow itself reads or writes
workflow_vars ==
    <<pc, api_key, state, query_idx, results_left, all_places_found,
      place_ids_found, raw_deals, queried, loc_net_called, places_api_called,
      collector_runs, creator_runs, branch, events, infer_vars>>

-----------------------------------------------------------------------------
(* Bounds of the model *)

\* most results iterated in one keyword response
MaxResults == 2

-----------------------------------------------------------------------------
(* Program constants *)

PLACEHOLDER_KEY == "YOUR_GOOGLE_PLACES_API_KEY_HERE"

search_queries ==
    << "hotel happy hour", "hotel bar", "hotel lounge", "lodging happy hour",
       "bar", "pub", "lounge", "brewery", "restaurant with happy hour",
       "cocktail bar", "wine bar" >>

\* radius = 5.0 in data_collector_agent
radius == 5

\* "alert_radius_km": 1
alert_radius_km == 1

\* float('inf') returned by calculate_distance_km on error
Inf == 1000000

\* None as a latitude or longitude
NoneCoord == 0 - 1000

NoneStr == "None"

KEY_ERROR_TEXT ==
    "Google Places API Key is not set or is invalid. Please set GOOGLE_PLACES_API_KEY in your .env file or replace 'YOUR_GOOGLE_PLACES_API_KEY_HERE' in the script."

COLLECTOR_ERROR_PREFIX == "Error in Data Collector: "

CREATOR_ERROR_PREFIX == "Error in Whistle API Creator: "

LATLNG_REQUIRED == "Latitude and Longitude are required inputs for data collection."

PUBLISH_OK == "Whistle API successfully created/updated with new happy hour deals."

PUBLISH_NO_DEALS == "Whistle API creation failed: No deals to publish."

CREATOR_NO_DEALS == "No deals found to publish to Whistle API."

DEFAULT_LOCATION ==
    [lat |-> 13, lng |-> 80, location_name |-> "Chennai, Tamil Nadu, India (Default)"]

-----------------------------------------------------------------------------
(* Text helpers *)

Char(s, i) == SubSeq(s, i, i)

UPPER == "ABCDEFGHIJKLMNOPQRSTUVWXYZ"

LOWER == "abcdefghijklmnopqrstuvwxyz"

\* str.lower() of one character, as a table
LowerOf ==
    [c \in {Char(UPPER, i) : i \in 1..Len(UPPER)} |->
        Char(LOWER, CHOOSE i \in 1..Len(UPPER) : Char(UPPER, i) = c)]

LowerChar(c) == IF c \in DOMAIN LowerOf THEN LowerOf[c] ELSE c

RECURSIVE Lower(_)
Lower(s) == IF Len(s) = 0 THEN "" ELSE LowerChar(Char(s, 1)) \o Lower(SubSeq(s, 2, Len(s)))

\* Python: k in s
Contains(s, k) ==
    \E i \in 1..(Len(s) - Len(k) + 1) : SubSeq(s, i, i + Len(k) - 1) = k

StartsWith(s, p) == Len(s) >= Len(p) /\ SubSeq(s, 1, Len(p)) = p

\* positions of ':' in s
Colons(s) == {i \in 1..Len(s) : Char(s, i) = ":"}

Min(S) == CHOOSE x \in S : \A y \in S : x <= y

\* Python: s.split(':')[1]   (only used when ':' in s)
SplitColon1(s) ==
    LET first == Min(Colons(s))
        later == {i \in Colons(s) : i > first}
        stop  == IF later = {} THEN Len(s) + 1 ELSE Min(later)
    IN  SubSeq(s, first + 1, stop - 1)

RECURSIVE LStrip(_)
LStrip(s) == IF Len(s) > 0 /\ Char(s, 1) = " " THEN LStrip(SubSeq(s, 2, Len(s))) ELSE s

RECURSIVE RStrip(_)
RStrip(s) ==
    IF Len(s) > 0 /\ Char(s, Len(s)) = " " THEN RStrip(SubSeq(s, 1, Len(s) - 1)) ELSE s

Strip(s) == RStrip(LStrip(s))

-----------------------------------------------------------------------------
(* GeoMath *)

ValidLat(lat) == lat # NoneCoord /\ lat >= 0 - 90 /\ lat <= 90

ValidLng(lng) == lng # NoneCoord

\* geodesic(...).kilometers, or float('inf') when geodesic raises.
\* The value is the squared planar distance (see the header).
calculate_distance_km(lat1, lng1, lat2, lng2) ==
    IF ValidLat(lat1) /\ ValidLng(lng1) /\ ValidLat(lat2) /\ ValidLng(lng2)
    THEN (lat1 - lat2) * (lat1 - lat2) + (lng1 - lng2) * (lng1 - lng2)
    ELSE Inf

\* mutant: the radius itself is excluded
WithinRadius_Strict(distance, radius_km) == distance < radius_km * radius_km

\* distance <= radius_km, on squared distances
WithinRadius(distance, radius_km) == distance <= radius_km * radius_km

-----------------------------------------------------------------------------
(* HappyHourInference: lines 451-482 of fetch_happy_hour_data_live *)

InSeq(x, seq) == \E i \in 1..Len(seq) : seq[i] = x

MENTION_KEYWORDS ==
    <<"happy hour", "drink special", "half price", "discount", "specials", "deal">>

\* mutant: every review is examined
FirstFive_All(reviews) == reviews

\* reviews[:5]
FirstFive(reviews) == SubSeq(reviews, 1, IF Len(reviews) < 5 THEN Len(reviews) ELSE 5)

\* lines 455-456: any(keyword in text.lower() for keyword in [...])
ReviewMentions(text) ==
    LET lowered == Lower(text)
    IN  \E k \in 1..Len(MENTION_KEYWORDS) : Contains(lowered, MENTION_KEYWORDS[k])

\* lines 452-458
has_happy_hour_mention(reviews) ==
    LET checked == FirstFive(reviews)
    IN  \E i \in 1..Len(checked) : ReviewMentions(checked[i])

\* detailed_place.get('name', 'Unknown Place')
NameOrUnknown(name) == IF name = NoneStr THEN "Unknown Place" ELSE name

\* mutant: the bar rule is tried before the hotel rules
CategoryOffer_BarFirst(name, place_types) ==
    IF InSeq("bar", place_types) \/ InSeq("pub", place_types) \/ InSeq("night_club", place_types)
    THEN << "Happy Hour: Discounted drinks and possibly appetizers.", 30 >>
    ELSE IF InSeq("lodging", place_types) \/ InSeq("hotel", place_types)
    THEN IF InSeq("restaurant", place_types)
         THEN << "Hotel Bar/Restaurant Happy Hour: Discounted cocktails, wine, beer, and perhaps small plates.", 25 >>
         ELSE << "Hotel Lobby Bar Happy Hour: Special deals on drinks and appetizers for guests and visitors.", 20 >>
    ELSE IF InSeq("restaurant", place_types)
    THEN << "Happy Hour: Special deals on drinks and appetizers.", 20 >>
    ELSE << "Potential happy hour at " \o NameOrUnknown(name) \o ".", 20 >>

\* the if/elif chain of lines 461-477: <<offer_details, offer_validity_hours>>
CategoryOffer(name, place_types) ==
    IF InSeq("lodging", place_types) \/ InSeq("hotel", place_types)
    THEN IF InSeq("bar", place_types) \/ InSeq("restaurant", place_types)
         THEN << "Hotel Bar/Restaurant Happy Hour: Discounted cocktails, wine, beer, and perhaps small plates.", 25 >>
         ELSE << "Hotel Lobby Bar Happy Hour: Special deals on drinks and appetizers for guests and visitors.", 20 >>
    ELSE IF InSeq("bar", place_types) \/ InSeq("pub", place_types) \/ InSeq("night_club", place_types)
    THEN << "Happy Hour: Discounted drinks and possibly appetizers.", 30 >>
    ELSE IF InSeq("restaurant", place_types)
    THEN << "Happy Hour: Special deals on drinks and appetizers.", 20 >>
    ELSE << "Potential happy hour at " \o NameOrUnknown(name) \o ".", 20 >>

CONFIRMED_PREFIX == "Happy hour confirmed in recent reviews!"

\* line 481
ConfirmedOffer(offer_details) ==
    CONFIRMED_PREFIX \o " Deals likely include: "
      \o (IF Colons(offer_details) # {} THEN Strip(SplitColon1(offer_details))
                                       ELSE "discounted drinks/food")
      \o ". Call to confirm current offers."

Max(a, b) == IF a >= b THEN a ELSE b

\* mutant: the review mention does not change the offer
InferOffer_IgnoresMention(name, place_types, reviews) ==
    LET base == CategoryOffer(name, place_types)
    IN  [details |-> base[1], validity_hours |-> base[2]]

\* mutant: a mention sets the duration to 2 hours
InferOffer_MentionSetsTwo(name, place_types, reviews) ==
    LET base == CategoryOffer(name, place_types)
    IN  IF has_happy_hour_mention(reviews)
        THEN [details |-> ConfirmedOffer(base[1]), validity_hours |-> 20]
        ELSE [details |-> base[1], validity_hours |-> base[2]]

\* lines 451-482: the offer text and the duration of one venue
InferOffer(name, place_types, reviews) ==
    LET base == CategoryOffer(name, place_types)
    IN  IF has_happy_hour_mention(reviews)
        THEN [details |-> ConfirmedOffer(base[1]), validity_hours |-> Max(base[2], 20)]
        ELSE [details |-> base[1], validity_hours |-> base[2]]

\* lines 449 and 484-497: the record appended to all_places_found.
\* place is the search result, details_data the decoded detail response.
BuildCandidate(place, details_data) ==
    LET detailed_place == IF details_data.status = "OK" THEN details_data.result ELSE place
        offer == InferOffer(detailed_place.name, detailed_place.types, detailed_place.reviews)
    IN  [ name           |-> detailed_place.name,
          lat            |-> place.lat,
          lng            |-> place.lng,
          place_id       |-> place.place_id,
          types          |-> detailed_place.types,
          details        |-> offer.details,
          validity_hours |-> offer.validity_hours,
          \* not a key of the dict: the local has_happy_hour_mention of line
          \* 452, kept to state what a deal is compared with
          has_happy_hour_mention |-> has_happy_hour_mention(detailed_place.reviews) ]

-----------------------------------------------------------------------------
(* Inputs drawn by the model *)

\* values of the GOOGLE_PLACES_API_KEY environment variable
ApiKeys == {"", PLACEHOLDER_KEY, "AIza-live-key"}

\* where the searched venues lie, relative to the origin (km north, km east)
Offsets == {<<0, 0>>, <<3, 4>>, <<4, 4>>}

\* latitudes geodesic() rejects
BadLats == {91}

PlaceIds == {"p1", "p2"}

\* place.get("place_id") of a result without identifier
NoPlaceId == ""

\* text-search results around (lat, lng); a search result carries no reviews.
\* A result without "geometry" has no coordinates to read.
BasicPlaces(lat, lng) ==
    { [ place_id |-> id, has_geometry |-> c # <<NoneCoord, NoneCoord>>,
        lat |-> c[1], lng |-> c[2],
        name |-> "Joe's Place", types |-> <<"restaurant">>, reviews |-> <<>> ] :
          id \in PlaceIds \cup {NoPlaceId},
          c \in {<<lat + o[1], lng + o[2]>> : o \in Offsets}
                  \cup {<<b, lng>> : b \in BadLats}
                  \cup {<<NoneCoord, NoneCoord>>} }

\* details_data['result'] of an OK detail response
DetailResults ==
    { [ name |-> "The Inn", types |-> <<"lodging">>, reviews |-> <<>> ],
      [ name |-> "The Tap", types |-> <<"bar", "point_of_interest">>,
        reviews |-> <<"Nice rooms", "Happy Hour special!">> ] }

\* outcome of the detail request of lines 444-446
DetailResponses ==
    { [kind |-> "raise"], [kind |-> "json", status |-> "NOT_FOUND"] }
      \cup { [kind |-> "json", status |-> "OK", result |-> d] : d \in DetailResults }

\* outcome of the text-search request of lines 424-426
SearchResponses ==
    { [kind |-> "request_error", n |-> 0], [kind |-> "json_error", n |-> 0],
      [kind |-> "json", status |-> "ZERO_RESULTS", n |-> 0],
      [kind |-> "json", status |-> "OVER_QUERY_LIMIT", n |-> 0] }
      \cup { [kind |-> "json", status |-> "OK", n |-> n] : n \in 0..MaxResults }

\* exceptions the publish call may raise
PublishErrors == {"[Errno 32] Broken pipe"}

-----------------------------------------------------------------------------
(* Location resolution: main, lines 723-766 *)

DETECTED == [lat |-> 40, lng |-> 0 - 74]

\* get_user_location_auto: ip is the outcome of the ipify lookup, geo the
\* outcome of the ipapi lookup.  why = "raise": an exception leaves the function.
get_user_location_auto(ip, geo) ==
    CASE ip = "malformed" -> [why |-> "raise", loc |-> DEFAULT_LOCATION]
      [] ip \in {"none", "private"} -> [why |-> "return", loc |-> DEFAULT_LOCATION]
      [] ip = "public" /\ geo = "ok" ->
            [why |-> "return",
             loc |-> [lat |-> DETECTED.lat, lng |-> DETECTED.lng,
                      location_name |-> "Springfield, Illinois, United States"]]
      [] ip = "public" /\ geo = "no_coordinates" ->
            [why |-> "return",
             loc |-> [lat |-> NoneCoord, lng |-> NoneCoord,
                      location_name |-> "Unknown, Unknown, Unknown"]]
      [] OTHER -> [why |-> "return", loc |-> DEFAULT_LOCATION]

\* get_location_from_coordinates(lat, lng)['formatted_address']
get_location_from_coordinates(geo) ==
    CASE geo = "ok"            -> "Springfield, Illinois, United States"
      [] geo = "no_result"     -> "Unknown location"
      [] geo = "network_error" -> "Location lookup failed (Network Error)"
      [] OTHER                 -> "Location lookup failed"

\* main, lines 768-775
InitialState(lat, lng, location_name) ==
    [ lat |-> lat, lng |-> lng, happy_hour_deals |-> <<>>,
      api_creation_status |-> "", error_message |-> "",
      location_name |-> location_name ]

NoState == InitialState(NoneCoord, NoneCoord, "Unknown Location")

\* lines 766-775: the banner formats lat and lng, which raises on None
StartWorkflow(lat, lng, location_name) ==
    IF lat = NoneCoord \/ lng = NoneCoord
    THEN pc' = "crashed" /\ state' = NoState
    ELSE pc' = "data_collector" /\ state' = InitialState(lat, lng, location_name)

ResolveAuto ==
    \E ip \in {"none", "private", "public", "malformed"},
       geo \in {"ok", "no_coordinates", "network_error", "error"} :
        LET r == get_user_location_auto(ip, geo)
        IN  IF r.why = "raise"
            THEN pc' = "crashed" /\ state' = NoState
            ELSE StartWorkflow(r.loc.lat, r.loc.lng, r.loc.location_name)

ResolveAddress ==
    \E found \in BOOLEAN :
        IF found
        THEN StartWorkflow(DETECTED.lat, DETECTED.lng, "Springfield, Illinois, United States")
        ELSE pc' = "exit" /\ state' = NoState

ResolveCoords ==
    \E parsed \in BOOLEAN, geo \in {"ok", "network_error"} :
        IF parsed
        THEN StartWorkflow(DETECTED.lat, DETECTED.lng, get_location_from_coordinates(geo))
        ELSE pc' = "exit" /\ state' = NoState

\* LocationInputService.get_user_location: returns confirmed coordinates,
\* or the user interrupts
ResolvePrompt ==
    \E confirmed \in BOOLEAN :
        IF confirmed
        THEN StartWorkflow(DETECTED.lat, DETECTED.lng, "Springfield, Illinois, United States")
        ELSE pc' = "exit" /\ state' = NoState

\* every mode's lookup goes over the network; a --coords value that does not
\* parse and an interrupted prompt end the program before any lookup
Resolve ==
    /\ pc = "main"
    /\ \/ ResolveAuto /\ loc_net_called' = TRUE
       \/ ResolveAddress /\ loc_net_called' = TRUE
       \/ ResolveCoords /\ loc_net_called' = (pc' # "exit")
       \/ ResolvePrompt /\ loc_net_called' = (pc' # "exit")
    /\ UNCHANGED <<api_key, query_idx, results_left, all_places_found,
                   place_ids_found, raw_deals, queried, places_api_called,
                   collector_runs, creator_runs, branch, events, report, infer_vars>>

-----------------------------------------------------------------------------
(* VenueDiscovery: fetch_happy_hour_data_live *)

\* mutant: the placeholder is taken for a credential
KeyMissing_EmptyOnly(key) == key = ""

\* line 393
KeyMissing(key) == key = "" \/ key = PLACEHOLDER_KEY

\* mutant: the set of identifiers found is not consulted
IsNewPlace_NoSeenCheck(place, seen) == place.place_id # NoPlaceId

\* line 431: the result is new and has an identifier
IsNewPlace(place, seen) == place.place_id # NoPlaceId /\ place.place_id \notin seen

\* the identifiers of the candidates of a list
Ids(places) == {places[i].place_id : i \in 1..Len(places)}

\* mutant: the identifier is never recorded
MarkSeen_Never(seen, place_id) == seen

\* line 498: place_ids_found.add(place_id)
MarkSeen(seen, place_id) == seen \cup {place_id}

\* mutant: the try sits around the loop, a failed query ends it
NextQueryAfterFailure_Break(idx) == Len(search_queries) + 1

\* lines 423 and 503-508: the try sits inside the loop over the keywords, so
\* after a failed query the loop goes on with the next keyword
NextQueryAfterFailure(idx) == idx + 1

\* lines 510-516: keep the places within the radius, with their distance
RECURSIVE FilterByDistance(_, _, _, _)
FilterByDistance(places, lat, lng, radius_km) ==
    IF places = <<>> THEN <<>>
    ELSE LET place    == Head(places)
             distance == calculate_distance_km(lat, lng, place.lat, place.lng)
             rest     == FilterByDistance(Tail(places), lat, lng, radius_km)
         IN  IF WithinRadius(distance, radius_km)
             THEN <<[ name |-> place.name, lat |-> place.lat, lng |-> place.lng,
                      place_id |-> place.place_id, types |-> place.types,
                      details |-> place.details,
                      validity_hours |-> place.validity_hours,
                      has_happy_hour_mention |-> place.has_happy_hour_mention,
                      distance_km |-> distance ]>> \o rest
             ELSE rest

-----------------------------------------------------------------------------
(* DealAssembler: data_collector_agent, lines 572-602 *)

\* mutant: the duration is passed on as it is
FormatDeal_NoClamp(deal) ==
    [ store_name           |-> deal.name,
      store_address        |-> [lat |-> deal.lat, lng |-> deal.lng],
      offer_details        |-> deal.details,
      offer_validity_hours |-> deal.validity_hours,
      alert_radius_km      |-> alert_radius_km,
      provider             |-> TRUE ]

\* lines 575 and 586-596
FormatDeal(deal) ==
    [ store_name           |-> deal.name,
      store_address        |-> [lat |-> deal.lat, lng |-> deal.lng],
      offer_details        |-> deal.details,
      offer_validity_hours |-> Max(10, deal.validity_hours),
      alert_radius_km      |-> alert_radius_km,
      provider             |-> TRUE ]

FormatDeals(deals) == [i \in 1..Len(deals) |-> FormatDeal(deals[i])]

\* the sort key of line 599
DealDistance(x, lat, lng) ==
    calculate_distance_km(lat, lng, x.store_address.lat, x.store_address.lng)

\* mutant: x goes before the deals at its own distance
InsertPosition_BeforeTies(sorted, x, lat, lng) ==
    Cardinality({i \in 1..Len(sorted) :
                    DealDistance(sorted[i], lat, lng) < DealDistance(x, lat, lng)})

\* where a stable sort puts x among the already sorted deals: after every
\* deal that is not farther
InsertPosition(sorted, x, lat, lng) ==
    Cardinality({i \in 1..Len(sorted) :
                    DealDistance(sorted[i], lat, lng) <= DealDistance(x, lat, lng)})

RECURSIVE SortedByDistance(_, _, _)
SortedByDistance(deals, lat, lng) ==
    IF deals = <<>> THEN <<>>
    ELSE LET front == SortedByDistance(SubSeq(deals, 1, Len(deals) - 1), lat, lng)
             x     == deals[Len(deals)]
             k     == InsertPosition(front, x, lat, lng)
         IN  SubSeq(front, 1, k) \o <<x>> \o SubSeq(front, k + 1, Len(front))

-----------------------------------------------------------------------------
(* WorkflowEngine *)

\* mutant: the deal list is looked at before the error message
decide_next_step_DealsFirst(st) ==
    IF st.happy_hour_deals = <<>> THEN "end_no_deals"
    ELSE IF st.error_message # "" THEN "end_with_error"
    ELSE "continue_to_whistle_api"

\* lines 633-647
decide_next_step(st) ==
    IF st.error_message # "" THEN "end_with_error"
    ELSE IF st.happy_hour_deals = <<>> THEN "end_no_deals"
    ELSE "continue_to_whistle_api"

\* mutant: an empty deal list sends the workflow back to the collection stage
NextNode_Retry(decision) ==
    IF decision = "continue_to_whistle_api" THEN "whistle_api_creator"
    ELSE IF decision = "end_no_deals" THEN "data_collector"
    ELSE "END"

\* mutant: only an error ends the workflow before the publish stage
NextNode_PublishEmpty(decision) ==
    IF decision = "end_with_error" THEN "END" ELSE "whistle_api_creator"

\* lines 658-669: the node each value of decide_next_step leads to
NextNode(decision) ==
    IF decision = "continue_to_whistle_api" THEN "whistle_api_creator" ELSE "END"

\* mutant: the publisher finds nothing to publish
create_whistle_api_mock_NoDeals(deals_json) == PUBLISH_NO_DEALS

\* lines 534-549
create_whistle_api_mock(deals_json) ==
    IF deals_json # <<>> THEN PUBLISH_OK ELSE PUBLISH_NO_DEALS

\* lines 623-626: the publisher returned status_message
PublishReturned(st, status_message) ==
    [st EXCEPT !.api_creation_status = status_message]

\* mutant: the exception text is stored as the status too
PublishRaised_SetsStatus(st, e) ==
    [st EXCEPT !.error_message = CREATOR_ERROR_PREFIX \o e,
               !.api_creation_status = e]

\* lines 627-630: the publisher raised e
PublishRaised(st, e) ==
    [st EXCEPT !.error_message = CREATOR_ERROR_PREFIX \o e]

-----------------------------------------------------------------------------
(* The result report: main, lines 781-797 *)

\* nothing printed yet
NoReport == [kind |-> "none", error |-> "", deals |-> <<>>, status |-> ""]

\* mutant: the deal list is looked at before the error message
Report_DealsFirst(final_state) ==
    IF final_state.happy_hour_deals # <<>>
    THEN [kind |-> "deals", error |-> "", deals |-> final_state.happy_hour_deals,
          status |-> final_state.api_creation_status]
    ELSE IF final_state.error_message # ""
    THEN [kind |-> "error", error |-> final_state.error_message, deals |-> <<>>,
          status |-> ""]
    ELSE [kind |-> "no_deals", error |-> "", deals |-> <<>>, status |-> ""]

\* lines 782-797: what is printed of final_state
Report(final_state) ==
    IF final_state.error_message # ""
    THEN [kind |-> "error", error |-> final_state.error_message, deals |-> <<>>,
          status |-> ""]
    ELSE IF final_state.happy_hour_deals # <<>>
    THEN [kind |-> "deals", error |-> "", deals |-> final_state.happy_hour_deals,
          status |-> final_state.api_creation_status]
    ELSE [kind |-> "no_deals", error |-> "", deals |-> <<>>, status |-> ""]

-----------------------------------------------------------------------------
(* The program *)

\* no venue is under inference
NoVenue == [name |-> NoneStr, types |-> <<>>, reviews |-> <<>>]

Init ==
    /\ pc = "main"
    /\ api_key \in ApiKeys
    /\ state = NoState
    /\ query_idx = 1
    /\ results_left = 0
    /\ all_places_found = <<>>
    /\ place_ids_found = {}
    /\ raw_deals = <<>>
    /\ queried = <<>>
    /\ loc_net_called = FALSE
    /\ places_api_called = FALSE
    /\ collector_runs = 0
    /\ creator_runs = 0
    /\ branch = ""
    /\ events = {}
    /\ report = NoReport
    /\ venue = NoVenue
    /\ review_idx = 0
    /\ mention = FALSE

\* data_collector_agent up to the first keyword query (lines 554-570 and
\* 393-413); an exception of the fetch is recorded by lines 604-607
DataCollectorStart ==
    /\ pc = "data_collector"
    /\ collector_runs' = collector_runs + 1
    /\ IF state.lat = NoneCoord \/ state.lng = NoneCoord
       THEN /\ state' = [state EXCEPT !.error_message = LATLNG_REQUIRED]
            /\ pc' = "decide"
       ELSE IF KeyMissing(api_key)
       THEN /\ state' = [state EXCEPT !.error_message = COLLECTOR_ERROR_PREFIX \o KEY_ERROR_TEXT]
            /\ pc' = "decide"
       ELSE /\ state' = state
            /\ pc' = "fetch"
    /\ query_idx' = 1
    /\ results_left' = 0
    /\ all_places_found' = <<>>
    /\ place_ids_found' = {}
    /\ UNCHANGED <<api_key, raw_deals, queried, loc_net_called, places_api_called,
                   creator_runs, branch, events, report, infer_vars>>

\* one keyword's text search (lines 415-428 and 499-508): a failed request, an
\* undecodable body and a status other than OK leave the lists alone
TextSearch ==
    /\ pc = "fetch"
    /\ results_left = 0
    /\ query_idx <= Len(search_queries)
    /\ \E resp \in SearchResponses :
          IF resp.kind = "json" /\ resp.status \in {"OK", "ZERO_RESULTS"}
          THEN /\ results_left' = resp.n
               /\ query_idx' = IF resp.n > 0 THEN query_idx ELSE query_idx + 1
               /\ events' = events
          ELSE /\ results_left' = 0
               /\ query_idx' = NextQueryAfterFailure(query_idx)
               /\ events' = events \cup {"query_failed"}
    /\ queried' = Append(queried, search_queries[query_idx])
    /\ places_api_called' = TRUE
    /\ UNCHANGED <<pc, api_key, state, all_places_found, place_ids_found, raw_deals,
                   loc_net_called, collector_runs, creator_runs, branch, report,
                   infer_vars>>

\* the loop goes on to the next result, or to the next keyword after the last
NextResult ==
    /\ results_left' = results_left - 1
    /\ query_idx' = IF results_left = 1 THEN query_idx + 1 ELSE query_idx

\* one result of an OK response (lines 429-498).  An exception of the detail
\* request is caught by the handlers of lines 503-508, outside the loop over
\* the results.
ProcessPlace ==
    /\ pc = "fetch"
    /\ results_left > 0
    /\ \E place \in BasicPlaces(state.lat, state.lng) :
          IF ~IsNewPlace(place, place_ids_found) \/ ~place.has_geometry
          THEN /\ NextResult
               /\ events' = IF place.place_id \in place_ids_found
                             THEN events \cup {"duplicate_skipped"} ELSE events
               /\ UNCHANGED <<all_places_found, place_ids_found>>
          ELSE \E details \in DetailResponses :
                  /\ events' = IF place.place_id \in Ids(all_places_found)
                                THEN events \cup {"detail_refetched"} ELSE events
                  /\ IF details.kind = "raise"
                     THEN /\ results_left' = 0
                          /\ query_idx' = NextQueryAfterFailure(query_idx)
                          /\ UNCHANGED <<all_places_found, place_ids_found>>
                     ELSE /\ all_places_found' =
                                 Append(all_places_found, BuildCandidate(place, details))
                          /\ place_ids_found' = MarkSeen(place_ids_found, place.place_id)
                          /\ NextResult
    /\ UNCHANGED <<pc, api_key, state, raw_deals, queried, loc_net_called,
                   places_api_called, collector_runs, creator_runs, branch, report,
                   infer_vars>>

\* after the last keyword: the distance filter (lines 510-519), then the
\* formatting, the sort and the state update of data_collector_agent
\* (lines 572-603)
DataCollectorFinish ==
    /\ pc = "fetch"
    /\ results_left = 0
    /\ query_idx > Len(search_queries)
    /\ raw_deals' = FilterByDistance(all_places_found, state.lat, state.lng, radius)
    /\ state' = [state EXCEPT !.happy_hour_deals =
                    SortedByDistance(FormatDeals(raw_deals'), state.lat, state.lng)]
    /\ pc' = "decide"
    /\ UNCHANGED <<api_key, query_idx, results_left, all_places_found, place_ids_found,
                   queried, loc_net_called, places_api_called, collector_runs,
                   creator_runs, branch, events, report, infer_vars>>

\* the conditional edge after data_collector (lines 633-666)
DecideNextStep ==
    /\ pc = "decide"
    /\ branch' = decide_next_step(state)
    /\ pc' = NextNode(branch')
    /\ UNCHANGED <<api_key, state, query_idx, results_left, all_places_found,
                   place_ids_found, raw_deals, queried, loc_net_called,
                   places_api_called, collector_runs, creator_runs, events, report,
                   infer_vars>>

\* whistle_api_creator_agent (lines 609-630) and the edge to END (line 669)
WhistleApiCreator ==
    /\ pc = "whistle_api_creator"
    /\ creator_runs' = creator_runs + 1
    /\ IF state.happy_hour_deals = <<>>
       THEN state' = [state EXCEPT !.api_creation_status = CREATOR_NO_DEALS]
       ELSE \E outcome \in {"return"} \cup PublishErrors :
               state' = IF outcome = "return"
                        THEN PublishReturned(state, create_whistle_api_mock(state.happy_hour_deals))
                        ELSE PublishRaised(state, outcome)
    /\ pc' = "END"
    /\ UNCHANGED <<api_key, query_idx, results_left, all_places_found, place_ids_found,
                   raw_deals, queried, loc_net_called, places_api_called,
                   collector_runs, branch, events, report, infer_vars>>

\* main after app.invoke has returned final_state (lines 781-797)
MainReport ==
    /\ pc = "END"
    /\ report = NoReport
    /\ report' = Report(state)
    /\ UNCHANGED workflow_vars

Next ==
    \/ Resolve
    \/ DataCollectorStart
    \/ TextSearch
    \/ ProcessPlace
    \/ DataCollectorFinish
    \/ DecideNextStep
    \/ WhistleApiCreator
    \/ MainReport

Spec == Init /\ [][Next]_vars

\* the interpreter runs the program on: every step that can be taken is taken
FairSpec == Spec /\ WF_vars(Next)

-----------------------------------------------------------------------------
(* The inference of one venue, step by step: lines 449-498 *)

\* most reviews a detail record carries
MaxReviews == 6

PLAIN_REVIEW == "Nice rooms"

\* review['text'] values: one per keyword of line 456 in mixed case, a text
\* that comes close to a keyword, and '' for a review without text (line 455)
ReviewTexts ==
    { "HAPPY Hour special!", "2-for-1 Drink Special", "Half Price wings",
      "student DISCOUNT", "Daily Specials", "a great Deal", "Happy  hours", "" }

\* detailed_place.get('reviews', []): plain reviews, with one text of
\* ReviewTexts at up to two positions
ReviewLists ==
    { [i \in 1..n |-> IF i = first \/ i = second THEN t ELSE PLAIN_REVIEW] :
        n \in 0..MaxReviews, first \in 0..MaxReviews, second \in 0..MaxReviews,
        t \in ReviewTexts }

\* detailed_place.get('types', [])
TypeLists ==
    { <<"lodging">>, <<"hotel">>, <<"hotel", "bar">>, <<"bar", "lodging">>,
      <<"lodging", "restaurant">>, <<"bar">>, <<"pub", "restaurant">>,
      <<"night_club">>, <<"restaurant">>, <<"cafe">>, <<>> }

\* detailed_place.get('name'): a plain name, no name, a name with a colon
VenueNames == {"The Inn", NoneStr, "Bar 21: Rooftop"}

\* details_data['result'] of the OK detail responses inference is run on; the
\* name only shows where no category matches
InferVenues ==
    { [name |-> "The Inn", types |-> ts, reviews |-> rs] :
        ts \in TypeLists, rs \in ReviewLists }
      \cup { [name |-> nm, types |-> ts, reviews |-> rs] :
               nm \in VenueNames, ts \in {<<"cafe">>, <<>>}, rs \in ReviewLists }

\* the search result whose detail record is under inference
InferPlace ==
    CHOOSE p \in BasicPlaces(state.lat, state.lng) :
        p.place_id # NoPlaceId /\ p.has_geometry
          /\ WithinRadius(calculate_distance_km(state.lat, state.lng, p.lat, p.lng), radius)
          /\ p.lat # state.lat

\* the loop of line 415 stands at the only result of the last keyword's
\* response; nothing was found before, and the detail request of lines
\* 444-446 has returned status OK with the record venue
InferInit ==
    /\ pc = "scan"
    /\ api_key \in ApiKeys \ {"", PLACEHOLDER_KEY}
    /\ state = InitialState(DEFAULT_LOCATION.lat, DEFAULT_LOCATION.lng,
                            DEFAULT_LOCATION.location_name)
    /\ query_idx = Len(search_queries)
    /\ results_left = 1
    /\ all_places_found = <<>>
    /\ place_ids_found = {}
    /\ raw_deals = <<>>
    /\ queried = search_queries
    /\ loc_net_called = TRUE
    /\ places_api_called = TRUE
    /\ collector_runs = 1
    /\ creator_runs = 0
    /\ branch = ""
    /\ events = {}
    /\ report = NoReport
    /\ venue \in InferVenues
    /\ review_idx = 0
    /\ mention = FALSE

\* one pass of the loop of lines 454-458: the next review of reviews[:5] is
\* examined; a match sets the flag and the break of line 458 ends the loop
ScanReview ==
    /\ pc = "scan"
    /\ LET checked == FirstFive(venue.reviews)
       IN  IF ~mention /\ review_idx < Len(checked)
           THEN /\ review_idx' = review_idx + 1
                /\ mention' = ReviewMentions(checked[review_idx + 1])
                /\ pc' = "scan"
           ELSE /\ pc' = "infer"
                /\ UNCHANGED <<review_idx, mention>>
    /\ UNCHANGED <<api_key, state, query_idx, results_left, all_places_found,
                   place_ids_found, raw_deals, queried, loc_net_called,
                   places_api_called, collector_runs, creator_runs, branch, events,
                   report, venue>>

\* lines 460-498: the offer of the venue, the append and the identifier
InferVenue ==
    /\ pc = "infer"
    /\ all_places_found' =
          Append(all_places_found,
                 BuildCandidate(InferPlace, [kind |-> "json", status |-> "OK", result |-> venue]))
    /\ place_ids_found' = MarkSeen(place_ids_found, InferPlace.place_id)
    /\ NextResult
    /\ pc' = "fetch"
    /\ UNCHANGED <<api_key, state, raw_deals, queried, loc_net_called,
                   places_api_called, collector_runs, creator_runs, branch, events,
                   report, infer_vars>>

InferNext ==
    \/ ScanReview
    \/ InferVenue
    \/ DataCollectorFinish

InferSpec == InferInit /\ [][InferNext]_vars

-----------------------------------------------------------------------------
(* Vocabulary of the claims *)

\* the workflow has run to END (app.invoke returned)
Ended == pc = "END"

EndedWithError == Ended /\ state.error_message # ""

EndedNoDeals == Ended /\ state.error_message = "" /\ branch = "end_no_deals"

EndedOk == Ended /\ state.error_message = "" /\ branch = "continue_to_whistle_api"

\* the collection stage has completed
Collected == pc \in {"decide", "whistle_api_creator", "END"}

\* fetch_happy_hour_data_live went through its keyword loop and returned
Discovered == Collected /\ places_api_called

NoRepeatedId(places) ==
    \A i, j \in 1..Len(places) : i # j => places[i].place_id # places[j].place_id

IsPrefix(s, t) == Len(s) <= Len(t) /\ s = SubSeq(t, 1, Len(s))

OriginDistance(lat, lng) ==
    (lat - state.lat) * (lat - state.lat) + (lng - state.lng) * (lng - state.lng)

\* the deals of a list lying at squared distance d from the origin, in order
DealsAt(deals, d) ==
    SelectSeq(deals, LAMBDA x : OriginDistance(x.store_address.lat, x.store_address.lng) = d)

-----------------------------------------------------------------------------
(* C1 *)

\* C1: once the collection stage has completed the workflow takes exactly one
\* branch: end_with_error when an error message was recorded, otherwise
\* end_no_deals when the deal list is empty, otherwise the publish stage; the
\* publish stage runs only after a collection without error that produced at
\* least one deal.
C1_OneBranch ==
    /\ Ended => branch \in {"end_with_error", "end_no_deals", "continue_to_whistle_api"}
    /\ branch = "end_with_error" =>
          /\ Ended /\ creator_runs = 0
          /\ state.error_message # "" /\ ~StartsWith(state.error_message, CREATOR_ERROR_PREFIX)
    /\ branch = "end_no_deals" =>
          /\ Ended /\ creator_runs = 0
          /\ state.error_message = "" /\ state.happy_hour_deals = <<>>
    /\ branch = "continue_to_whistle_api" =>
          /\ pc \in {"whistle_api_creator", "END"}
          /\ creator_runs = (IF Ended THEN 1 ELSE 0)
          /\ state.happy_hour_deals # <<>>
          /\ state.error_message = "" \/ StartsWith(state.error_message, CREATOR_ERROR_PREFIX)
    /\ creator_runs > 0 => branch = "continue_to_whistle_api"

C1_Witness ==
    Ended /\ branch = "continue_to_whistle_api" /\ creator_runs = 1
          /\ Len(state.happy_hour_deals) = 2

-----------------------------------------------------------------------------
(* C2 *)

\* C2: whatever the keyword responses were (identifiers repeated within a
\* response or across keywords, failed queries), neither the accumulated list
\* nor the list returned by fetch_happy_hour_data_live holds two candidates
\* with the same place_id, and the deal list holds exactly one deal per
\* returned venue.
C2_Dedup ==
    /\ NoRepeatedId(all_places_found)
    /\ NoRepeatedId(raw_deals)
    /\ Ids(all_places_found) = place_ids_found
    /\ Len(state.happy_hour_deals) = Cardinality(Ids(raw_deals))

C2_Witness ==
    Ended /\ "duplicate_skipped" \in events /\ "query_failed" \in events
          /\ Len(state.happy_hour_deals) = 2

-----------------------------------------------------------------------------
(* C3 *)

\* where the keyword loop stands, given the queries issued so far
C3_InOrder ==
    /\ IsPrefix(queried, search_queries)
    /\ pc = "fetch" =>
          Len(queried) = (IF results_left > 0 THEN query_idx ELSE query_idx - 1)
    /\ Discovered => queried = search_queries
    /\ places_api_called =>
          state.error_message = "" \/ StartsWith(state.error_message, CREATOR_ERROR_PREFIX)

\* C3: a failed keyword query never aborts discovery: the keywords are queried
\* in list order and all of them are queried before discovery returns; the
\* candidates accepted so far are kept by every step of the loop; and no
\* failure of a query leaves discovery as an exception or as an error message
\* of the run.
C3_FailureIsLocal ==
    /\ []C3_InOrder
    /\ [][pc = "fetch" => /\ IsPrefix(all_places_found, all_places_found')
                          /\ pc' \in {"fetch", "decide"}
                          /\ state'.error_message = ""]_vars

C3_Witness ==
    Ended /\ "query_failed" \in events /\ raw_deals # <<>> /\ queried = search_queries
          /\ state.error_message = ""

-----------------------------------------------------------------------------
(* C4 *)

\* C4: the deal list stored by the collection stage is in ascending order of
\* distance from the origin, and the deals at one distance stand in the order
\* in which discovery returned them.
C4_SortedStable ==
    LET deals == state.happy_hour_deals
        emitted == FormatDeals(raw_deals)
    IN  /\ \A i, j \in 1..Len(deals) :
              i < j => OriginDistance(deals[i].store_address.lat, deals[i].store_address.lng)
                         <= OriginDistance(deals[j].store_address.lat, deals[j].store_address.lng)
        /\ \A d \in 0..(radius * radius) : DealsAt(deals, d) = DealsAt(emitted, d)
        /\ Len(deals) = Len(emitted)

\* the sort had to move a deal
C4_Witness ==
    Ended /\ Len(state.happy_hour_deals) = 2
          /\ state.happy_hour_deals # FormatDeals(raw_deals)

-----------------------------------------------------------------------------
(* C5 *)

C5_ConfigError ==
    /\ state.error_message = COLLECTOR_ERROR_PREFIX \o KEY_ERROR_TEXT
    /\ state.happy_hour_deals = <<>>
    /\ state.api_creation_status = ""
    /\ creator_runs = 0
    /\ Ended => branch = "end_with_error"

\* C5 as stated: with the credential unset or equal to the placeholder, the run
\* ends with the configuration error, no deal and no publish stage, and no
\* network call at all has been attempted.
C5_Original ==
    (api_key \in {"", PLACEHOLDER_KEY} /\ Collected) =>
        C5_ConfigError /\ ~places_api_called /\ ~loc_net_called

\* C5 amended: with the credential unset or equal to the placeholder, a run
\* that reaches the collection stage ends with the configuration error, no
\* deal and no publish stage, and no Places API request is attempted; the
\* location lookup that precedes the collection stage has gone over the network.
C5_Amended ==
    (api_key \in {"", PLACEHOLDER_KEY} /\ Collected) =>
        C5_ConfigError /\ ~places_api_called /\ loc_net_called

C5_Witness ==
    api_key = PLACEHOLDER_KEY /\ EndedWithError /\ loc_net_called

-----------------------------------------------------------------------------
(* C6 *)

\* C6: when discovery returns no candidate within the radius, the run ends
\* with no deals: api_creation_status and error_message are still empty and
\* the publish stage has not run.
C6_NoDeals ==
    (Discovered /\ raw_deals = <<>>) =>
        /\ state.happy_hour_deals = <<>>
        /\ state.api_creation_status = ""
        /\ state.error_message = ""
        /\ creator_runs = 0
        /\ pc \in {"decide", "END"}
        /\ Ended => EndedNoDeals

\* every candidate found lay outside the radius
C6_Witness ==
    EndedNoDeals /\ Discovered /\ raw_deals = <<>> /\ Len(all_places_found) = 2

-----------------------------------------------------------------------------
(* C7 *)

\* C7: when the publish stage has run, either the run ended without error and
\* api_creation_status is the status the publisher returned, or the publish
\* call raised, an error message of the publish stage is recorded and
\* api_creation_status is still empty.
C7_PublishOutcome ==
    (creator_runs > 0) =>
        /\ Ended
        /\ \/ EndedOk /\ state.api_creation_status = PUBLISH_OK
           \/ /\ EndedWithError
              /\ \E e \in PublishErrors : state.error_message = CREATOR_ERROR_PREFIX \o e
              /\ state.api_creation_status = ""

C7_Witness ==
    creator_runs = 1 /\ EndedWithError /\ state.api_creation_status = ""
          /\ state.happy_hour_deals # <<>>

-----------------------------------------------------------------------------
(* C8 *)

\* C8: a workflow started at the collection stage reaches END, having run the
\* collection stage exactly once and the publish stage at most once; END is
\* never left, and nothing of the workflow changes after it.
C8_Terminates ==
    /\ (pc = "data_collector") ~> Ended
    /\ [](collector_runs <= 1 /\ creator_runs <= 1)
    /\ [](Collected => collector_runs = 1)
    /\ [][Ended => UNCHANGED workflow_vars]_vars

C8_Witness ==
    Ended /\ collector_runs = 1 /\ creator_runs = 1 /\ queried = search_queries

-----------------------------------------------------------------------------
(* C9 *)

\* the deal built from a returned venue is in the deal list
C9_DealOf(returned) ==
    CHOOSE i \in 1..Len(state.happy_hour_deals) :
        state.happy_hour_deals[i] = FormatDeal(returned)

\* C9 as stated: the flag of every deal equals the has_happy_hour_mention of
\* the venue it was built from.
C9_Original ==
    \A v \in 1..Len(raw_deals) :
        /\ \E i \in 1..Len(state.happy_hour_deals) :
              state.happy_hour_deals[i] = FormatDeal(raw_deals[v])
        /\ state.happy_hour_deals[C9_DealOf(raw_deals[v])].provider
              = raw_deals[v].has_happy_hour_mention

\* C9 amended: the only flag of a deal, provider, is true for every deal,
\* whether or not a review mention was found; the mention shows in the offer
\* text alone, which starts with the "confirmed in recent reviews" phrase
\* exactly when a mention was found for the venue.
C9_Amended ==
    \A v \in 1..Len(raw_deals) :
        /\ \E i \in 1..Len(state.happy_hour_deals) :
              state.happy_hour_deals[i] = FormatDeal(raw_deals[v])
        /\ state.happy_hour_deals[C9_DealOf(raw_deals[v])].provider = TRUE
        /\ StartsWith(state.happy_hour_deals[C9_DealOf(raw_deals[v])].offer_details,
                      "Happy hour confirmed")
              <=> raw_deals[v].has_happy_hour_mention

C9_Witness ==
    /\ Ended /\ Len(raw_deals) = 2
    /\ raw_deals[1].has_happy_hour_mention /\ ~raw_deals[2].has_happy_hour_mention

-----------------------------------------------------------------------------
(* C10 *)

C10_Distance(place) == OriginDistance(place.lat, place.lng)

C10_InReach(place) ==
    /\ place.lat >= 0 - 90 /\ place.lat <= 90
    /\ C10_Distance(place) <= radius * radius

\* C10: every candidate discovery returns lies within the radius and carries
\* its distance; the returned candidates are exactly the accumulated ones
\* within the radius, in the same order, so that a candidate beyond the radius
\* or without computable distance is dropped and nothing else is.
C10_RadiusFilter ==
    Collected =>
        /\ \A i \in 1..Len(raw_deals) :
              /\ C10_InReach(raw_deals[i])
              /\ raw_deals[i].distance_km = C10_Distance(raw_deals[i])
        /\ [i \in 1..Len(raw_deals) |-> raw_deals[i].place_id]
              = LET kept == SelectSeq(all_places_found, C10_InReach)
                IN  [i \in 1..Len(kept) |-> kept[i].place_id]

\* a venue exactly on the radius is returned, one without computable distance
\* is dropped
C10_Witness ==
    /\ Ended /\ Len(raw_deals) = 1 /\ Len(all_places_found) = 2
    /\ raw_deals[1].distance_km = radius * radius
    /\ \E i \in 1..2 : all_places_found[i].lat > 90

-----------------------------------------------------------------------------
(* C11 *)

\* C11: the duration inference gives a venue is above 0 and never below the
\* duration of the category rule that matched; with a review mention it is at
\* least 2 hours, without one it is the duration of the category rule.
C11_Duration ==
    \A i \in 1..Len(all_places_found) :
        LET c        == all_places_found[i]
            assigned == CategoryOffer(venue.name, venue.types)[2]
        IN  /\ c.validity_hours > 0
            /\ assigned > 0
            /\ c.validity_hours >= assigned
            /\ mention => c.validity_hours >= 20
            /\ ~mention => c.validity_hours = assigned

\* a venue with a mention whose category rule gives more than 2 hours
C11_Witness ==
    pc = "decide" /\ mention /\ Len(all_places_found) = 1
          /\ all_places_found[1].validity_hours = 30

-----------------------------------------------------------------------------
(* C12 *)

\* largest duration, in tenths of an hour, FormatDeal is applied to
MaxValidity == 35

\* a returned venue whose validity_hours is v
C12_Raw(v) ==
    [ name |-> "The Inn", lat |-> state.lat, lng |-> state.lng,
      details |-> "Happy Hour: Special deals on drinks and appetizers.",
      validity_hours |-> v ]

\* C12: every deal of the state has a duration of at least 1 hour, which is
\* the duration inference gave the venue, and alert_radius_km 1, whatever the
\* categories and reviews of the venue; a duration below 1 hour is raised to
\* 1 hour by the formatting and any other is passed through unchanged.
C12_Clamped ==
    /\ Len(state.happy_hour_deals) <= Len(raw_deals)
    /\ \A i \in 1..Len(state.happy_hour_deals) :
          LET d == state.happy_hour_deals[i]
          IN  /\ d.offer_validity_hours >= 10
              /\ d.alert_radius_km = 1
              /\ \E j \in 1..Len(raw_deals) :
                    /\ d.store_name = raw_deals[j].name
                    /\ d.offer_validity_hours = raw_deals[j].validity_hours
    /\ \A v \in 0..MaxValidity :
          /\ FormatDeal(C12_Raw(v)).offer_validity_hours = (IF v < 10 THEN 10 ELSE v)
          /\ FormatDeal(C12_Raw(v)).alert_radius_km = 1

\* the deal of a hotel bar keeps its 2.5 hours
C12_Witness ==
    pc = "decide" /\ Len(state.happy_hour_deals) = 1
          /\ state.happy_hour_deals[1].offer_validity_hours = 25
          /\ raw_deals[1].validity_hours = 25

-----------------------------------------------------------------------------
(* C13 *)

\* C13: once main has printed its report, a final state with an error message,
\* recorded by the collection stage or by the publish stage, is reported as
\* that error with no deal shown; deals are shown only when the error message
\* is empty, and they are the deals of the final state.
C13_ErrorHidesDeals ==
    report # NoReport =>
        /\ Ended
        /\ state.error_message # "" =>
              /\ report.kind = "error"
              /\ report.error = state.error_message
              /\ report.deals = <<>>
        /\ report.deals # <<>> =>
              /\ state.error_message = ""
              /\ report.deals = state.happy_hour_deals
        /\ report.kind = "error" => state.error_message # ""

\* the publish stage failed while the state holds deals
C13_Witness ==
    /\ report.kind = "error" /\ report.deals = <<>>
    /\ creator_runs = 1 /\ state.happy_hour_deals # <<>>
    /\ StartsWith(state.error_message, CREATOR_ERROR_PREFIX)

-----------------------------------------------------------------------------
(* C14 *)

\* the origins automatic detection may hand to the workflow: the detected one
\* and the fixed fallback
C14_UsableOrigins ==
    { InitialState(DETECTED.lat, DETECTED.lng, "Springfield, Illinois, United States"),
      InitialState(DEFAULT_LOCATION.lat, DEFAULT_LOCATION.lng,
                   DEFAULT_LOCATION.location_name) }

\* C14 as stated: whatever the IP lookup and the geolocation lookup answer,
\* automatic detection yields the detected coordinates and label or the fixed
\* fallback ones, never missing coordinates, and the run reaches the
\* collection stage with that origin.
C14_Original ==
    [][(pc = "main" /\ ResolveAuto) =>
          /\ pc' = "data_collector"
          /\ state' \in C14_UsableOrigins
          /\ state'.lat # NoneCoord /\ state'.lng # NoneCoord]_vars

-----------------------------------------------------------------------------
(* C15 *)

\* C15 as stated: whatever the detail request of a result does, the loop over
\* the results of the response goes on with the next result: no step
\* of the loop drops the results that are still to be iterated, and the
\* candidates found so far are kept.
C15_Original ==
    [][(pc = "fetch" /\ results_left > 0) =>
          /\ results_left' = results_left - 1
          /\ IsPrefix(all_places_found, all_places_found')]_vars

-----------------------------------------------------------------------------
(* C16 *)

\* the categories of the venue under inference, as a set
VenueTypes == {venue.types[i] : i \in 1..Len(venue.types)}

\* the number of the first rule of the claim's list that the categories match
MatchedRule ==
    IF VenueTypes \cap {"hotel", "lodging"} # {} /\ VenueTypes \cap {"bar", "restaurant"} # {}
    THEN 1
    ELSE IF VenueTypes \cap {"hotel", "lodging"} # {} THEN 2
    ELSE IF VenueTypes \cap {"bar", "pub", "night_club"} # {} THEN 3
    ELSE IF "restaurant" \in VenueTypes THEN 4
    ELSE 5

\* the durations of the five rules, in tenths of an hour
RuleHours == <<25, 20, 30, 20, 20>>

\* C16: the duration of a venue is that of the first rule its categories
\* match (2.5, 2, 3, 2, 2 hours), and without a review mention its offer text
\* is that rule's: the Hotel Bar/Restaurant offer, the Hotel Lobby Bar offer,
\* a Happy Hour offer, or "Potential happy hour at {name}."; a lodging-only
\* venue without mention yields a deal whose offer_details contain
\* "Hotel Lobby Bar Happy Hour" and whose duration is 2 hours.
C16_FirstMatch ==
    /\ \A i \in 1..Len(all_places_found) :
          LET c == all_places_found[i]
          IN  /\ c.validity_hours = RuleHours[MatchedRule]
              /\ ~mention =>
                    CASE MatchedRule = 1 ->
                           StartsWith(c.details, "Hotel Bar/Restaurant Happy Hour:")
                      [] MatchedRule = 2 ->
                           StartsWith(c.details, "Hotel Lobby Bar Happy Hour:")
                      [] MatchedRule \in {3, 4} ->
                           StartsWith(c.details, "Happy Hour:")
                      [] OTHER ->
                           c.details = "Potential happy hour at "
                                         \o (IF venue.name = NoneStr THEN "Unknown Place"
                                                                     ELSE venue.name)
                                         \o "."
    /\ (pc = "decide" /\ VenueTypes = {"lodging"} /\ ~mention) =>
          /\ Len(state.happy_hour_deals) = 1
          /\ Contains(state.happy_hour_deals[1].offer_details, "Hotel Lobby Bar Happy Hour")
          /\ state.happy_hour_deals[1].offer_validity_hours = 20

\* a venue that is a bar and a lodging, the bar listed first: rule 1 decides
C16_Witness ==
    /\ pc = "decide" /\ venue.types = <<"bar", "lodging">> /\ ~mention
    /\ Len(state.happy_hour_deals) = 1
    /\ state.happy_hour_deals[1].offer_validity_hours = 25

-----------------------------------------------------------------------------
(* C17 *)

\* the texts of ReviewTexts that hold a keyword, in whatever case
MentioningTexts ==
    { "HAPPY Hour special!", "2-for-1 Drink Special", "Half Price wings",
      "student DISCOUNT", "Daily Specials", "a great Deal" }

\* positions among the first five reviews whose text holds a keyword
MentionPositions ==
    {i \in 1..Len(venue.reviews) : i <= 5 /\ venue.reviews[i] \in MentioningTexts}

\* C17: the flag is true exactly when one of the first five reviews holds a
\* keyword in whatever case; a keyword in the sixth or a later review does not
\* set it; and no review after the first one that matches is examined.
C17_MentionScan ==
    /\ review_idx <= 5 /\ review_idx <= Len(venue.reviews)
    /\ \A i \in MentionPositions : review_idx <= i
    /\ mention <=> review_idx \in MentionPositions
    /\ pc # "scan" =>
          /\ mention <=> MentionPositions # {}
          /\ ~mention => review_idx = (IF Len(venue.reviews) < 5 THEN Len(venue.reviews) ELSE 5)
          /\ has_happy_hour_mention(venue.reviews) = mention
    /\ \A k \in 1..Len(all_places_found) :
          all_places_found[k].has_happy_hour_mention = mention

\* the only keyword stands in the sixth review
C17_Witness ==
    /\ pc = "decide" /\ ~mention /\ review_idx = 5
    /\ Len(venue.reviews) = 6 /\ venue.reviews[6] \in MentioningTexts

-----------------------------------------------------------------------------
(* C18 *)

\* the text after the label of the rule that matched, or the generic fragment
RuleFragment ==
    CASE MatchedRule = 1 -> "Discounted cocktails, wine, beer, and perhaps small plates."
      [] MatchedRule = 2 -> "Special deals on drinks and appetizers for guests and visitors."
      [] MatchedRule = 3 -> "Discounted drinks and possibly appetizers."
      [] MatchedRule = 4 -> "Special deals on drinks and appetizers."
      [] OTHER           -> "discounted drinks/food"

\* C18 as stated: with a review mention the offer text starts with the
\* "confirmed in recent reviews" phrase and goes on with the fragment of the
\* rule that matched, or with the generic fragment when no rule matched,
\* whatever the name of the venue.
C18_Original ==
    \A i \in 1..Len(all_places_found) :
        mention =>
            /\ StartsWith(all_places_found[i].details, "Happy hour confirmed in recent reviews!")
            /\ Contains(all_places_found[i].details, "Deals likely include: " \o RuleFragment)

-----------------------------------------------------------------------------
(* C19 *)

\* C19: api_creation_status is either empty or the success status of the
\* publisher; it is set exactly when the publish stage has run and its call
\* returned without raising; and the publish stage is entered only with a deal
\* list that is not empty, so that neither "no deals" status ever shows.
C19_PublishStatus ==
    /\ state.api_creation_status \in {"", PUBLISH_OK}
    /\ state.api_creation_status \notin {PUBLISH_NO_DEALS, CREATOR_NO_DEALS}
    /\ state.api_creation_status # "" <=>
          (creator_runs = 1 /\ Ended /\ state.error_message = "")
    /\ pc = "whistle_api_creator" => state.happy_hour_deals # <<>>
    /\ report.status \in {"", PUBLISH_OK}

\* the report of a run that published its deals
C19_Witness ==
    /\ Ended /\ state.api_creation_status = PUBLISH_OK
    /\ report.kind = "deals" /\ report.status = PUBLISH_OK

-----------------------------------------------------------------------------
(* C20 *)

\* what holds of the identifiers found at every moment
C20_SeenIsAppended ==
    /\ place_ids_found = Ids(all_places_found)
    /\ "detail_refetched" \notin events
    /\ \A i \in 1..Len(raw_deals) :
          \E j \in 1..Len(all_places_found) :
              /\ all_places_found[j].place_id = raw_deals[i].place_id
              /\ all_places_found[j].name = raw_deals[i].name
              /\ all_places_found[j].details = raw_deals[i].details

\* C20: the candidate of an identifier is the one appended when the
\* identifier was first processed to the end: every step of the loop keeps
\* the candidates appended so far as they are and appends at most one, an
\* identifier is marked seen only in the step that appends its candidate, no
\* detail request is made for an identifier already seen, and the returned
\* venues are the appended records.
C20_FirstWins ==
    /\ []C20_SeenIsAppended
    /\ [][pc = "fetch" =>
            /\ IsPrefix(all_places_found, all_places_found')
            /\ Len(all_places_found') <= Len(all_places_found) + 1
            /\ place_ids_found \subseteq place_ids_found'
            /\ Len(all_places_found') = Len(all_places_found) + 1 =>
                  /\ all_places_found'[Len(all_places_found')].place_id \notin place_ids_found
                  /\ place_ids_found' = place_ids_found
                        \cup {all_places_found'[Len(all_places_found')].place_id}
            /\ Len(all_places_found') = Len(all_places_found) =>
                  place_ids_found' = place_ids_found]_vars

\* an identifier came back under a later keyword and was skipped
C20_Witness ==
    /\ pc = "fetch" /\ "duplicate_skipped" \in events
    /\ Len(all_places_found) = 1 /\ query_idx > 2 /\ results_left = 0

====
